---- MODULE Spec2Model ----
(***************************************************************************)
(* A model of fls: the natural comparator (output.rs vercmp), the grid     *)
(* layout engine (output.rs write_grid), the buffered style writer         *)
(* (output.rs BufferedStdout) and the raw directory enumerator             *)
(* (directory.rs Directory / IterDir / File).                              *)
(*                                                                         *)
(* Each component has its own specification (SpecVercmp, SpecVercmp3,      *)
(* SpecGrid, SpecWriter, SpecDir).  All of them share one set of           *)
(* variables; a specification keeps the variables of the components it     *)
(* does not exercise at their idle values.                                 *)
(***************************************************************************)
EXTENDS Integers, Sequences, FiniteSets, TLC

VARIABLES
    \* ---- vercmp harness: the inputs and the orderings computed ----
    s1, s2, s3,         \* byte strings handed to vercmp
    r12, r21, r23, r13, \* vercmp(s1,s2), vercmp(s2,s1), vercmp(s2,s3), vercmp(s1,s3)
    cpc                 \* "start" | "done"

varsCmp == <<s1, s2, s3, r12, r21, r23, r13, cpc>>

(***************************************************************************)
(* Bytes.  A byte string is a sequence of numbers 0..255.                  *)
(***************************************************************************)
ZERO == 48     \* b'0'
NINE == 57     \* b'9'
UPPER_A == 65  \* b'A'
UPPER_Z == 90  \* b'Z'
SPACE == 32    \* b' '
NEWLINE == 10  \* b'\n'

\* Option<u8>::None; core::cmp orders None before every Some(_).
None == -1

\* <[u8]>::get(index): Some(byte) or None past the end (0-based index).
Get(s, index) == IF index < Len(s) THEN s[index + 1] ELSE None

\* u8::is_ascii_digit
is_ascii_digit(b) == b >= ZERO /\ b <= NINE

\* SliceExt::digit_at
digit_at(s, index) == IF Get(s, index) = None THEN FALSE ELSE is_ascii_digit(Get(s, index))

\* u8::to_ascii_lowercase under Option::map
to_ascii_lowercase(c) == IF c # None /\ c >= UPPER_A /\ c <= UPPER_Z THEN c + 32 ELSE c

\* Ord::cmp on Option<u8> (None = -1 sorts first, then by byte value)
OptCmp(x, y) == IF x < y THEN "Less" ELSE IF x > y THEN "Greater" ELSE "Equal"

\* Ordering::reverse
Reverse(o) == IF o = "Less" THEN "Greater" ELSE IF o = "Greater" THEN "Less" ELSE "Equal"

(***************************************************************************)
(* vercmp, loop by loop.                                                   *)
(***************************************************************************)
\* "Compare lexicographic until we hit a numeral": the first inner loop.
\* ret is "none" when the loop ends without returning.
RECURSIVE LexLoop(_, _, _, _)
LexLoop(a, b, p1, p2) ==
    IF (p1 < Len(a) /\ ~digit_at(a, p1)) \/ (p2 < Len(b) /\ ~digit_at(b, p2))
    THEN LET s1_c == to_ascii_lowercase(Get(a, p1))
             s2_c == to_ascii_lowercase(Get(b, p2))
         IN  IF s1_c # s2_c
             THEN [ret |-> OptCmp(s1_c, s2_c), p1 |-> p1, p2 |-> p2]
             ELSE LexLoop(a, b, p1 + 1, p2 + 1)
    ELSE [ret |-> "none", p1 |-> p1, p2 |-> p2]

\* "Skip leading zeroes": while s.get(pos) == Some(&b'0') { pos += 1 }
RECURSIVE SkipZeros(_, _)
SkipZeros(s, pos) == IF Get(s, pos) = ZERO THEN SkipZeros(s, pos + 1) ELSE pos

\* "Advance forward while they are both characters", keeping the first
\* byte-level difference.
RECURSIVE DigitLoop(_, _, _, _, _)
DigitLoop(a, b, p1, p2, first_diff) ==
    IF digit_at(a, p1) /\ digit_at(b, p2)
    THEN DigitLoop(a, b, p1 + 1, p2 + 1,
                   IF first_diff = "Equal" THEN OptCmp(Get(a, p1), Get(b, p2))
                                           ELSE first_diff)
    ELSE [p1 |-> p1, p2 |-> p2, first_diff |-> first_diff]

\* The outer while loop of vercmp, from positions (p1, p2).
RECURSIVE VercmpFrom(_, _, _, _)
VercmpFrom(a, b, p1, p2) ==
    IF ~(p1 < Len(a) \/ p2 < Len(b)) THEN "Equal"
    ELSE LET lex == LexLoop(a, b, p1, p2)
         IN  IF lex.ret # "none" THEN lex.ret
             ELSE LET d == DigitLoop(a, b, SkipZeros(a, lex.p1), SkipZeros(b, lex.p2),
                                     "Equal")
                  IN  IF digit_at(a, d.p1) THEN "Greater"
                      ELSE IF digit_at(b, d.p2) THEN "Less"
                      ELSE IF d.first_diff # "Equal" THEN d.first_diff
                      ELSE VercmpFrom(a, b, d.p1, d.p2)

\* A comparator that answers Less whenever the strings differ byte-wise:
\* the slip of dropping the mirrored Greater answers.
VercmpOneSided(a, b) == IF a = b THEN "Equal" ELSE "Less"

\* A comparator that compares numeral runs byte by byte instead of by length
\* first (plain case-folded byte order, digits included).
RECURSIVE VercmpLexical(_, _)
VercmpLexical(a, b) ==
    IF a = <<>> /\ b = <<>> THEN "Equal"
    ELSE LET x == to_ascii_lowercase(Get(a, 0))
             y == to_ascii_lowercase(Get(b, 0))
         IN  IF x # y THEN OptCmp(x, y) ELSE VercmpLexical(Tail(a), Tail(b))

vercmp(a, b) == VercmpFrom(a, b, 0, 0)

(***************************************************************************)
(* Inputs of the comparator.                                               *)
(***************************************************************************)
MaxLen == 3      \* longest name compared pairwise
MaxLen3 == 2     \* longest name compared in triples

\* '.', '0', '1', 'A', 'a': a byte below the digits, two digits, two letters
\* that differ only in case.
Alphabet == {46, 48, 49, 65, 97}

Strs(n) == UNION {[1..k -> Alphabet] : k \in 0..n}

\* run() sorts by calling vercmp on pairs of names (main.rs sort_unstable_by):
\* one call each way round.
Compare2 ==
    /\ cpc = "start"
    /\ r12' = vercmp(s1, s2)
    /\ r21' = vercmp(s2, s1)
    /\ cpc' = "done"
    /\ UNCHANGED <<s1, s2, s3, r23, r13>>

\* The three calls a sort makes on three names.
Compare3 ==
    /\ cpc = "start"
    /\ r12' = vercmp(s1, s2)
    /\ r21' = vercmp(s2, s1)
    /\ r23' = vercmp(s2, s3)
    /\ r13' = vercmp(s1, s3)
    /\ cpc' = "done"
    /\ UNCHANGED <<s1, s2, s3>>

LessEq(o) == o \in {"Less", "Equal"}

\* C1: vercmp is transitive: if vercmp(a,b) and vercmp(b,c) are both
\* less-or-equal then vercmp(a,c) is less-or-equal (no cycle a < b, b = c,
\* c < a).
C1_Transitive ==
    cpc = "done" /\ r13 # "none" => ((LessEq(r12) /\ LessEq(r23)) => LessEq(r13))

\* C2: vercmp(a,b) is the reverse of vercmp(b,a), and vercmp(a,a) is Equal.
C2_Antisymmetric ==
    cpc = "done" => /\ r21 = Reverse(r12)
                    /\ r12 \in {"Less", "Equal", "Greater"}
                    /\ (s1 = s2 => r12 = "Equal")

\* C2 witness: two different names compared both ways, one strictly below the
\* other although the first is the longer one.
C2_Witness ==
    /\ cpc = "done" /\ s1 # s2 /\ Len(s1) > Len(s2)
    /\ r12 = "Less" /\ r21 = "Greater"

\* The split of a name into its digit-free prefix and the rest.
RECURSIVE FirstDigit(_, _)
FirstDigit(s, i) == IF i > Len(s) THEN i
                    ELSE IF is_ascii_digit(s[i]) THEN i ELSE FirstDigit(s, i + 1)

PrefixOf(s) == SubSeq(s, 1, FirstDigit(s, 1) - 1)
RunOf(s) == SubSeq(s, FirstDigit(s, 1), Len(s))
AllDigits(s) == \A i \in 1..Len(s) : is_ascii_digit(s[i])

\* The decimal value of a digit run.
RECURSIVE Decimal(_)
Decimal(d) == IF d = <<>> THEN 0
              ELSE 10 * Decimal(SubSeq(d, 1, Len(d) - 1)) + (d[Len(d)] - ZERO)

IntCmp(x, y) == IF x < y THEN "Less" ELSE IF x > y THEN "Greater" ELSE "Equal"

\* Both names are the same digit-free prefix followed by a non-empty digit
\* run that reaches the end of the name.
SamePrefixThenNumeral(a, b) ==
    /\ PrefixOf(a) = PrefixOf(b)
    /\ RunOf(a) # <<>> /\ AllDigits(RunOf(a))
    /\ RunOf(b) # <<>> /\ AllDigits(RunOf(b))

\* C3: for two names made of the same non-digit prefix followed by a
\* non-empty digit run up to the end, vercmp is the ordering of the two
\* decimal values, leading zeros ignored.
C3_NumeralMagnitude ==
    cpc = "done" /\ SamePrefixThenNumeral(s1, s2)
        => r12 = IntCmp(Decimal(RunOf(s1)), Decimal(RunOf(s2)))

\* C3 witness: a non-empty prefix, two different numerals of equal value
\* (leading zero), compared Equal.
C3_Witness ==
    /\ cpc = "done" /\ SamePrefixThenNumeral(s1, s2)
    /\ PrefixOf(s1) # <<>> /\ s1 # s2 /\ Decimal(RunOf(s1)) > 0
    /\ r12 = "Equal"

IsProperPrefix(a, b) == Len(a) < Len(b) /\ SubSeq(b, 1, Len(a)) = a

\* C4: whenever a is a proper prefix of b, vercmp(a,b) is Less.
C4_ProperPrefixLess ==
    cpc = "done" /\ IsProperPrefix(s1, s2) => r12 = "Less"

(***************************************************************************)
(* The buffered style writer (output.rs BufferedStdout).                   *)
(*                                                                         *)
(* buf holds the valid prefix buf[0..buf_used] of the fixed array: the     *)
(* code never reads the array past buf_used (push flushes the whole array  *)
(* only when buf_used has reached its capacity, Drop writes                *)
(* buf[..buf_used]).  stdout is the bytes handed to write(2) on fd 1.      *)
(***************************************************************************)
VARIABLES
    buf,          \* BufferedStdout.buf, the bytes buf[0..buf_used]
    buf_used,     \* BufferedStdout.buf_used
    style,        \* BufferedStdout.style, the active style
    is_terminal,  \* BufferedStdout.is_terminal
    stdout,       \* the bytes written to the output stream so far
    hist,         \* the calls made on the writer, each with what it appended
    wpc           \* "live" | "dropped" | "idle"

varsOut == <<buf, buf_used, style, is_terminal, stdout, hist, wpc>>

BufCap == 4096   \* buf: [u8; 4096]
ESC == 27        \* the byte every escape sequence starts with

\* The styles the model uses, each with the byte that tells its escape
\* sequence from the others.
Styles == {"Reset", "White", "Magenta", "BlueBold"}
StyleCode(st) == CASE st = "Reset" -> 48
                   [] st = "White" -> 55
                   [] st = "Magenta" -> 53
                   [] st = "BlueBold" -> 52

\* Style::to_bytes: the escape sequence of a style.
to_bytes(st) == <<ESC, 91, StyleCode(st), 109>>

\* The writer as one value.
Writer == [buf |-> buf, buf_used |-> buf_used, style |-> style,
           is_terminal |-> is_terminal, stdout |-> stdout]

\* write_to_stdout: write(2) in a loop until every byte is written.
write_to_stdout(w, bytes) == [w EXCEPT !.stdout = @ \o bytes]

\* TRUE of every writer.  Testing it at the head of a loop body makes the
\* writer handed in a value before the body runs, as it is in the program.
Evaluated(w) == w.buf_used >= 0

\* push that flushes a full buffer and restarts it empty, the new byte lost.
PushDropsOnFull(w, b) ==
    IF w.buf_used < BufCap
    THEN [w EXCEPT !.buf = Append(@, b), !.buf_used = @ + 1]
    ELSE [write_to_stdout(w, w.buf) EXCEPT !.buf = <<>>, !.buf_used = 0]

\* BufferedStdout::push
BufferedStdout_push(w, b) ==
    IF w.buf_used < BufCap
    THEN [w EXCEPT !.buf = Append(@, b), !.buf_used = @ + 1]
    ELSE [write_to_stdout(w, w.buf) EXCEPT !.buf = <<b>>, !.buf_used = 1]

\* BufferedStdout::write
RECURSIVE BufferedStdout_write(_, _)
BufferedStdout_write(w, bytes) ==
    IF bytes = <<>> \/ ~Evaluated(w) THEN w
    ELSE BufferedStdout_write(BufferedStdout_push(w, Head(bytes)), Tail(bytes))

\* style that emits whenever the destination is a terminal, without
\* comparing with the active style.
StyleWithoutCompare(w, st) ==
    IF w.is_terminal
    THEN [BufferedStdout_write(w, to_bytes(st)) EXCEPT !.style = st]
    ELSE w

\* BufferedStdout::style
BufferedStdout_style(w, st) ==
    IF w.is_terminal /\ w.style # st
    THEN [BufferedStdout_write(w, to_bytes(st)) EXCEPT !.style = st]
    ELSE w

\* n copies of byte b pushed one by one: for _ in 0..n { push(b) }
RECURSIVE PushTimes(_, _, _)
PushTimes(w, b, n) == IF n <= 0 \/ ~Evaluated(w) THEN w ELSE PushTimes(BufferedStdout_push(w, b), b, n - 1)

\* itoa::Buffer::format: the decimal digits of an unsigned number.
RECURSIVE itoa(_)
itoa(n) == IF n < 10 THEN <<ZERO + n>> ELSE Append(itoa(n \div 10), ZERO + (n % 10))

\* BufferedStdout::align_left
BufferedStdout_align_left(w, value, width) ==
    LET w1 == BufferedStdout_write(w, value)
    IN  IF Len(value) < width THEN PushTimes(w1, SPACE, width - Len(value)) ELSE w1

\* BufferedStdout::align_right
BufferedStdout_align_right(w, value, width) ==
    LET formatted == itoa(value)
        w1 == IF Len(formatted) < width
              THEN PushTimes(w, SPACE, width - Len(formatted)) ELSE w
    IN  BufferedStdout_write(w1, formatted)

\* A drop that flushes the buffer without forcing the style back to Reset.
DropWithoutReset(w) ==
    IF w.buf_used <= Len(w.buf)
    THEN write_to_stdout(w, SubSeq(w.buf, 1, w.buf_used))
    ELSE w

\* Drop for BufferedStdout
BufferedStdout_drop(w) ==
    LET w1 == BufferedStdout_style(w, "Reset")
    IN  IF w1.buf_used <= Len(w1.buf)
        THEN write_to_stdout(w1, SubSeq(w1.buf, 1, w1.buf_used))
        ELSE w1

\* Every byte appended through the writer so far, in order.
Emitted(w) == w.stdout \o w.buf

\* The writer's variables take the fields of w.
SetWriter(w) ==
    /\ buf' = w.buf
    /\ buf_used' = w.buf_used
    /\ style' = w.style
    /\ is_terminal' = w.is_terminal
    /\ stdout' = w.stdout

\* BufferedStdout::terminal() / BufferedStdout::file()
NewWriter(term) ==
    [buf |-> <<>>, buf_used |-> 0, style |-> "Reset", is_terminal |-> term,
     stdout |-> <<>>]

(***************************************************************************)
(* The writer driven call by call.                                         *)
(***************************************************************************)
MaxCalls == 3    \* calls made on one writer before it is dropped

\* How many bytes a writer has taken in before the calls the model follows:
\* none, or two short of a full buffer.
Fills == {0, BufCap - 2}

\* A writer that has already taken in `fill` spaces (fill pushes of b' ').
Prefilled(term, fill) ==
    [NewWriter(term) EXCEPT !.buf = [i \in 1..fill |-> SPACE], !.buf_used = fill]

\* The bytes a call appended: what Emitted gained.
Appended(w, w2) == SubSeq(Emitted(w2), Len(Emitted(w)) + 1, Len(Emitted(w2)))

\* One call on the writer, leaving it as w2.
Call(op, arg, w2) ==
    /\ wpc = "live"
    /\ Len(hist) < MaxCalls
    /\ SetWriter(w2)
    /\ hist' = Append(hist, [op |-> op, arg |-> arg, before |-> style,
                             out |-> Appended(Writer, w2)])
    /\ UNCHANGED wpc

Push == \E b \in {97} : Call("push", b, BufferedStdout_push(Writer, b))

WriteBytes == \E bytes \in {<<97, 98>>} :
    Call("write", bytes, BufferedStdout_write(Writer, bytes))

SetStyle == \E st \in Styles \ {"Magenta"} :
    Call("style", st, BufferedStdout_style(Writer, st))

AlignLeft == \E value \in {<<97>>}, width \in {3} :
    Call("align_left", <<value, width>>, BufferedStdout_align_left(Writer, value, width))

AlignRight == \E value \in {42}, width \in {1, 3} :
    Call("align_right", <<value, width>>, BufferedStdout_align_right(Writer, value, width))

\* The writer goes out of scope.  The record of the drop keeps the style
\* that was active (before) and what the drop handed to the stream (out).
DropWriter ==
    /\ wpc = "live"
    /\ LET w2 == BufferedStdout_drop(Writer)
       IN  /\ SetWriter(w2)
           /\ hist' = Append(hist,
                  [op |-> "drop", arg |-> "Reset", before |-> style,
                   out |-> SubSeq(w2.stdout, Len(stdout) + 1, Len(w2.stdout))])
    /\ wpc' = "dropped"

\* write_to_stdout when syscalls::write fails: unwrap_or_else(|_| exit(-1)).
\* The process ends inside the flush of a non-empty buffer, after k of its
\* bytes reached the stream; the writer is never dropped.
ExitOnWriteError ==
    /\ wpc = "live"
    /\ buf_used > 0
    /\ \E k \in {0, 1} : stdout' = stdout \o SubSeq(buf, 1, k)
    /\ wpc' = "exited"
    /\ UNCHANGED <<buf, buf_used, style, is_terminal, hist>>

HasEsc(bytes) == \E i \in 1..Len(bytes) : bytes[i] = ESC

\* C10: a style() call appends escape-sequence bytes only if the destination
\* is a terminal and the requested style differs from the active one (and
\* then appends exactly that style's sequence); a non-terminal writer never
\* emits escape bytes; the same style requested twice in a row is emitted at
\* most once.
C10_StyleEmission ==
    /\ \A i \in 1..Len(hist) :
          hist[i].op = "style" =>
              /\ hist[i].out # <<>> => is_terminal /\ hist[i].before # hist[i].arg
              /\ hist[i].out \in {<<>>, to_bytes(hist[i].arg)}
    /\ ~is_terminal => ~HasEsc(Emitted(Writer))
    /\ \A i \in 1..(Len(hist) - 1) :
          hist[i].op = "style" /\ hist[i + 1].op = "style"
              /\ hist[i].arg = hist[i + 1].arg
          => hist[i + 1].out = <<>>

\* C10 witness: on a terminal, the same non-Reset style requested twice in a
\* row, the first call having emitted its sequence.
C10_Witness ==
    /\ is_terminal /\ Len(hist) >= 2
    /\ hist[1].op = "style" /\ hist[2].op = "style"
    /\ hist[1].arg = hist[2].arg /\ hist[1].arg # "Reset"
    /\ hist[1].out = to_bytes(hist[1].arg) /\ hist[2].out = <<>>

Spaces(n) == [i \in 1..n |-> SPACE]

\* The bytes a call is to append, from its arguments alone.
CallBytes(h) ==
    CASE h.op = "push" -> <<h.arg>>
      [] h.op = "write" -> h.arg
      [] h.op = "style" ->
            IF is_terminal /\ h.before # h.arg THEN to_bytes(h.arg) ELSE <<>>
      [] h.op = "align_left" -> h.arg[1] \o Spaces(h.arg[2] - Len(h.arg[1]))
      [] h.op = "align_right" ->
            Spaces(h.arg[2] - Len(itoa(h.arg[1]))) \o itoa(h.arg[1])
      [] OTHER -> <<>>

RECURSIVE AllCallBytes(_)
AllCallBytes(calls) ==
    IF calls = <<>> THEN <<>> ELSE CallBytes(Head(calls)) \o AllCallBytes(Tail(calls))

\* C11: once the writer has been dropped the active style is Reset, and the
\* output stream holds exactly the bytes the calls before the drop had
\* appended (those already flushed, then those still in the buffer, each
\* once and in order), followed by the reset sequence if and only if the
\* destination is a terminal and the style active at the drop was not Reset.
C11_DropResetsAndFlushes ==
    wpc = "dropped" =>
        LET d == hist[Len(hist)]
        IN  /\ d.op = "drop"
            /\ style = "Reset"
            /\ \E fill \in Fills :
                  stdout = Spaces(fill) \o AllCallBytes(hist)
                             \o (IF is_terminal /\ d.before # "Reset"
                                 THEN to_bytes("Reset") ELSE <<>>)

\* C11 witness: a terminal writer dropped with a non-Reset style active,
\* some bytes flushed before the drop and some written by it.
C11_Witness ==
    /\ wpc = "dropped" /\ is_terminal
    /\ hist[Len(hist)].before # "Reset"
    /\ hist[Len(hist)].out # <<>>
    /\ Len(hist[Len(hist)].out) < Len(stdout)

\* C18: while the writer is in use, buf_used never exceeds the capacity of
\* the buffer; the bytes written to the stream followed by buf[0..buf_used]
\* are exactly the bytes appended so far, in order; the stream has received
\* only whole buffers of BufCap bytes, each flushed by the append of one more
\* byte, which the buffer then holds.
C18_BufferConservation ==
    wpc = "live" =>
        /\ buf_used <= BufCap
        /\ Len(buf) = buf_used
        /\ \E fill \in Fills :
              Emitted(Writer) = Spaces(fill) \o AllCallBytes(hist)
        /\ Len(stdout) % BufCap = 0
        /\ stdout # <<>> => buf_used >= 1

\* C18 witness: a full buffer has been flushed by a later append, and the
\* writer has gone on taking bytes.
C18_Witness ==
    /\ wpc = "live"
    /\ Len(stdout) = BufCap
    /\ buf_used >= 2
    /\ Len(hist) >= 2

(***************************************************************************)
(* The grid layout engine (output.rs write_grid).                          *)
(***************************************************************************)
VARIABLES
    entries,                 \* the entry list handed to write_grid
    print_inode,             \* app.print_inode
    display_size_in_blocks,  \* app.display_size_in_blocks
    terminal_width,          \* the width budget
    rows,                    \* the row count write_grid settled on (0: none chosen)
    gpc                      \* "start" | "done" | "idle"

varsGrid == <<entries, print_inode, display_size_in_blocks, terminal_width, rows, gpc>>

Max(x, y) == IF x > y THEN x ELSE y
Min(x, y) == IF x < y THEN x ELSE y

RECURSIVE SeqMax(_)
SeqMax(s) == IF Len(s) = 1 THEN s[1] ELSE Max(s[1], SeqMax(Tail(s)))

RECURSIVE SeqSum(_)
SeqSum(s) == IF s = <<>> THEN 0 ELSE s[1] + SeqSum(Tail(s))

\* The number of UTF-8 characters of a byte string made of one-byte and
\* two-byte sequences; -1 when the bytes are not such a string.
RECURSIVE Utf8Chars(_)
Utf8Chars(bytes) ==
    IF bytes = <<>> THEN 0
    ELSE IF bytes[1] < 128
         THEN LET k == Utf8Chars(Tail(bytes)) IN IF k < 0 THEN -1 ELSE k + 1
    ELSE IF bytes[1] >= 194 /\ bytes[1] <= 223 /\ Len(bytes) >= 2
            /\ bytes[2] >= 128 /\ bytes[2] <= 191
         THEN LET k == Utf8Chars(Tail(Tail(bytes))) IN IF k < 0 THEN -1 ELSE k + 1
    ELSE -1

\* len_utf8: the byte count of an ASCII name, the grapheme count of valid
\* text (one per character for the names of the model), else the byte count.
len_utf8(bytes) ==
    IF \A i \in 1..Len(bytes) : bytes[i] < 128 THEN Len(bytes)
    ELSE IF Utf8Chars(bytes) >= 0 THEN Utf8Chars(bytes) ELSE Len(bytes)

\* <[T]>::chunks(size): consecutive runs of `size` elements, the last shorter.
RECURSIVE chunks(_, _)
chunks(s, size) ==
    IF s = <<>> THEN <<>>
    ELSE <<SubSeq(s, 1, Min(size, Len(s)))>> \o chunks(SubSeq(s, size + 1, Len(s)), size)

\* column.iter().max().copied().unwrap_or(1) + 2
ColumnWidth(column) == (IF column = <<>> THEN 1 ELSE SeqMax(column)) + 2

\* usize::saturating_sub
saturating_sub(x, y) == IF x >= y THEN x - y ELSE 0

\* width_of_this_layout for a candidate row count
LayoutWidth(lengths, num_rows) ==
    LET cols == chunks(lengths, num_rows)
    IN  saturating_sub(SeqSum([c \in 1..Len(cols) |-> ColumnWidth(cols[c])]), 2)

\* for num_rows in (1..entries.len()).rev() { ... rows = num_rows / break }
RECURSIVE RowSearch(_, _, _, _)
RowSearch(lengths, width, num_rows, chosen) ==
    IF num_rows < 1 THEN chosen
    ELSE IF LayoutWidth(lengths, num_rows) <= width
         THEN RowSearch(lengths, width, num_rows - 1, num_rows)
         ELSE chosen

\* A search that starts from one row instead of one row per entry
\* (let mut rows = 1).
ChooseRowsFromOne(lengths, width) == RowSearch(lengths, width, Len(lengths) - 1, 1)

\* let mut rows = entries.len(); followed by the search loop
ChooseRows(lengths, width) == RowSearch(lengths, width, Len(lengths) - 1, Len(lengths))

\* widths: one per column, the 2-cell gap taken off the last
ColumnWidths(lengths, nrows) ==
    LET cols == chunks(lengths, nrows)
    IN  [c \in 1..Len(cols) |->
            IF c = Len(cols) THEN ColumnWidth(cols[c]) - 2 ELSE ColumnWidth(cols[c])]

\* print_total_blocks that prints whatever the flag says.
PrintTotalAlways(w, ents, in_blocks) ==
    BufferedStdout_write(
        BufferedStdout_write(
            BufferedStdout_write(w, <<116, 111, 116, 97, 108, 32>>),
            itoa(SeqSum([i \in 1..Len(ents) |-> ents[i].blocks]))),
        <<NEWLINE>>)

\* print_total_blocks: "total ", the sum of the block counts, "\n"
print_total_blocks(w, ents, in_blocks) ==
    IF in_blocks
    THEN BufferedStdout_write(
             BufferedStdout_write(
                 BufferedStdout_write(w, <<116, 111, 116, 97, 108, 32>>),
                 itoa(SeqSum([i \in 1..Len(ents) |-> ents[i].blocks]))),
             <<NEWLINE>>)
    ELSE w

\* inode_len / blocks_len: the digits of the largest value, 0 with the flag off
FieldLen(flag, values) == IF flag THEN Len(itoa(SeqMax(values))) ELSE 0

\* lengths: the rendered width of each entry
Lengths(ents, inode_len, blocks_len) ==
    [i \in 1..Len(ents) |->
        len_utf8(ents[i].name) + (IF ents[i].suffix # None THEN 1 ELSE 0)
            + inode_len + blocks_len]

\* One cell: the optional inode and block-count prefixes, the styled name,
\* the suffix glyph, the padding up to the column width.
EmitCell(w, e, name_len, width, inodes, in_blocks, inode_len, blocks_len) ==
    LET w1 == IF inodes
              THEN BufferedStdout_push(
                       BufferedStdout_align_right(BufferedStdout_style(w, "Magenta"),
                                                  e.inode, inode_len), SPACE)
              ELSE w
        w2 == IF in_blocks
              THEN BufferedStdout_push(
                       BufferedStdout_align_right(BufferedStdout_style(w1, "White"),
                                                  e.blocks, blocks_len), SPACE)
              ELSE w1
        w3 == BufferedStdout_write(BufferedStdout_style(w2, e.style), e.name)
        w4 == IF e.suffix # None
              THEN BufferedStdout_push(BufferedStdout_style(w3, "White"), e.suffix)
              ELSE w3
    IN  PushTimes(w4, SPACE, width - name_len)

\* An index that walks the entries row by row.
CellIndexRowMajor(c, nrows, r) == r * nrows + c

\* entries.get(c * rows + r)
CellIndex(c, nrows, r) == c * nrows + r

\* for (c, width) in widths.iter().enumerate(): the cells of row r from
\* column c on (r and c are 0-based as in the source)
RECURSIVE EmitRow(_, _, _, _, _, _, _, _, _, _, _)
EmitRow(w, ents, lengths, widths, nrows, r, c, inodes, in_blocks, inode_len, blocks_len) ==
    IF c >= Len(widths) \/ ~Evaluated(w) THEN w
    ELSE LET i == CellIndex(c, nrows, r)
             w1 == IF i < Len(ents)
                   THEN EmitCell(w, ents[i + 1], lengths[i + 1], widths[c + 1],
                                 inodes, in_blocks, inode_len, blocks_len)
                   ELSE w
         IN  EmitRow(w1, ents, lengths, widths, nrows, r, c + 1,
                     inodes, in_blocks, inode_len, blocks_len)

\* for r in 0..rows: each row, then Reset and a newline
RECURSIVE EmitRows(_, _, _, _, _, _, _, _, _, _)
EmitRows(w, ents, lengths, widths, nrows, r, inodes, in_blocks, inode_len, blocks_len) ==
    IF r >= nrows \/ ~Evaluated(w) THEN w
    ELSE LET w1 == EmitRow(w, ents, lengths, widths, nrows, r, 0,
                           inodes, in_blocks, inode_len, blocks_len)
             w2 == BufferedStdout_push(BufferedStdout_style(w1, "Reset"), NEWLINE)
         IN  EmitRows(w2, ents, lengths, widths, nrows, r + 1,
                      inodes, in_blocks, inode_len, blocks_len)

\* write_grid: the writer it leaves and the row count it chose (0 when it
\* returns before choosing one).
write_grid(w, ents, inodes, in_blocks, width) ==
    LET w0 == print_total_blocks(w, ents, in_blocks)
    IN  IF ents = <<>> THEN [w |-> w0, rows |-> 0]
        ELSE LET inode_len == FieldLen(inodes, [i \in 1..Len(ents) |-> ents[i].inode])
                 blocks_len == FieldLen(in_blocks, [i \in 1..Len(ents) |-> ents[i].blocks])
                 lengths == Lengths(ents, inode_len, blocks_len)
                 nrows == ChooseRows(lengths, width)
                 widths == ColumnWidths(lengths, nrows)
             IN  [w |-> EmitRows(w0, ents, lengths, widths, nrows, 0,
                                 inodes, in_blocks, inode_len, blocks_len),
                  rows |-> nrows]

MaxEntries == 4   \* longest entry list laid out
MaxWidth == 8     \* widest terminal

\* What the writer holds when write_grid is called: nothing, or the header
\* line "x:\n" of the directory.
GridPrefixes == {<<>>, <<120, 58, 10>>}

\* The entries the lists are drawn from: a one-byte name, a two-byte name
\* with a suffix glyph, a two-byte name that is one character wide.
EntryKinds ==
    { [name |-> <<97>>, inode |-> 7, blocks |-> 0, style |-> "White", suffix |-> None],
      [name |-> <<98, 98>>, inode |-> 12, blocks |-> 8, style |-> "BlueBold", suffix |-> 47],
      [name |-> <<195, 169>>, inode |-> 3, blocks |-> 16, style |-> "White", suffix |-> None] }

WriteGrid ==
    /\ gpc = "start"
    /\ LET res == write_grid(Writer, entries, print_inode, display_size_in_blocks,
                             terminal_width)
       IN  /\ SetWriter(res.w)
           /\ rows' = res.rows
    /\ gpc' = "done"
    /\ UNCHANGED <<entries, print_inode, display_size_in_blocks, terminal_width, hist, wpc>>

\* The rendered widths write_grid computes for the list in hand.
GridLengths ==
    Lengths(entries,
            FieldLen(print_inode, [i \in 1..Len(entries) |-> entries[i].inode]),
            FieldLen(display_size_in_blocks, [i \in 1..Len(entries) |-> entries[i].blocks]))

SetMax(S) == CHOOSE x \in S : \A y \in S : y <= x
SetMin(S) == CHOOSE x \in S : \A y \in S : x <= y

\* The width of the layout with r rows, as the claim states it: the
\* ceil(n/r) column-major columns, each as wide as its widest member plus 2,
\* less 2.
RECURSIVE ColumnsWidth(_, _, _)
ColumnsWidth(L, r, c) ==
    IF c * r >= Len(L) THEN 0
    ELSE SetMax({L[i] : i \in (c * r + 1)..Min(Len(L), (c + 1) * r)}) + 2
             + ColumnsWidth(L, r, c + 1)

Feasible(L, width) == {r \in 1..Len(L) : ColumnsWidth(L, r, 0) - 2 <= width}

\* C5: for a non-empty list, write_grid selects the smallest feasible row
\* count: the least r in 1..n whose layout fits the terminal width, and n
\* when none fits.
C5_SmallestFeasibleRows ==
    gpc = "done" /\ entries # <<>>
        => rows = IF Feasible(GridLengths, terminal_width) = {}
                  THEN Len(entries)
                  ELSE SetMin(Feasible(GridLengths, terminal_width))

\* C6: for a non-empty list of n entries 1 <= rows <= n, and rows = n when
\* the width budget is smaller than the rendered width of every entry.
C6_RowsInRange ==
    gpc = "done" /\ entries # <<>>
        => /\ 1 <= rows /\ rows <= Len(entries)
           /\ (\A i \in 1..Len(entries) : terminal_width < GridLengths[i])
                  => rows = Len(entries)

\* C6 witness: three or more entries, each wider than the budget, laid out
\* one per row.
C6_Witness ==
    /\ gpc = "done" /\ Len(entries) >= 3
    /\ \A i \in 1..Len(entries) : terminal_width < GridLengths[i]
    /\ rows = Len(entries)

TotalZeroLine == <<116, 111, 116, 97, 108, 32, 48, 10>>   \* "total 0\n"

\* C7 as stated: write_grid with zero entries leaves the writer's buffered
\* bytes, style state and the stream unchanged, whatever the flags.
C7_EmptyGridSilent ==
    [][gpc = "start" /\ gpc' = "done" /\ entries = <<>>
          => UNCHANGED <<buf, buf_used, style, stdout>>]_<<varsGrid, varsOut>>

\* C7 amended: write_grid with zero entries leaves the writer unchanged when
\* block-count display is off; when it is on it appends exactly the line
\* "total 0\n" and nothing else; the style state is unchanged either way.
C7_EmptyGridTotalOnly ==
    [][gpc = "start" /\ gpc' = "done" /\ entries = <<>>
          => /\ style' = style
             /\ Emitted(Writer)' = Emitted(Writer)
                    \o (IF display_size_in_blocks THEN TotalZeroLine ELSE <<>>)
             /\ ~display_size_in_blocks => UNCHANGED <<buf, buf_used, stdout>>
       ]_<<varsGrid, varsOut>>

\* C7 witness: an empty list written with block-count display on and inode
\* display on; the buffer ends with the total line.
C7_Witness ==
    /\ gpc = "done" /\ entries = <<>> /\ display_size_in_blocks /\ print_inode
    /\ buf_used >= 8
    /\ SubSeq(buf, buf_used - 7, buf_used) = TotalZeroLine

\* The width of column c (0-based) of the layout chosen, L being the
\* rendered widths: its widest member, plus the 2-cell gap unless it is the
\* last column.
GridColumnWidth(L, c) ==
    SetMax({L[i] : i \in (c * rows + 1)..Min(Len(L), (c + 1) * rows)})
        + (IF (c + 1) * rows >= Len(L) THEN 0 ELSE 2)

\* The padding after entry i (0-based): the width of its column i div rows
\* less its rendered width.
GridPadding(L, i) == GridColumnWidth(L, i \div rows) - L[i + 1]

\* Row r from entry i on: the entries i, i + rows, i + 2 rows, ... each
\* written without padding (its prefixes of inode_len and blocks_len digits,
\* its name and suffix) and followed by its padding.
RECURSIVE GridRowFrom(_, _, _, _, _)
GridRowFrom(w, L, inode_len, blocks_len, i) ==
    IF i >= Len(entries) \/ ~Evaluated(w) THEN w
    ELSE GridRowFrom(
             BufferedStdout_write(
                 EmitCell(w, entries[i + 1], L[i + 1], L[i + 1],
                          print_inode, display_size_in_blocks, inode_len, blocks_len),
                 Spaces(GridPadding(L, i))),
             L, inode_len, blocks_len, i + rows)

\* Rows r, r + 1, ... rows - 1, each closed by Reset and a newline.
RECURSIVE GridRowsFrom(_, _, _, _, _)
GridRowsFrom(w, L, inode_len, blocks_len, r) ==
    IF r >= rows \/ ~Evaluated(w) THEN w
    ELSE GridRowsFrom(
             BufferedStdout_push(
                 BufferedStdout_style(GridRowFrom(w, L, inode_len, blocks_len, r), "Reset"),
                 NEWLINE),
             L, inode_len, blocks_len, r + 1)

\* The writer as it was when write_grid was called.
GridWriterBefore ==
    LET b0 == IF buf_used >= 3 /\ SubSeq(buf, 1, 3) = <<120, 58, 10>>
              THEN <<120, 58, 10>> ELSE <<>>
    IN  [NewWriter(is_terminal) EXCEPT !.buf = b0, !.buf_used = Len(b0)]

\* C17: with the row count chosen, write_grid emits after the total line
\* the rows 0 .. rows - 1 in order, row r holding the entries i with
\* i mod rows = r by increasing column i div rows, every entry once, each
\* followed by (column width - rendered width) spaces, a number that is
\* never negative, the last column's width being without the 2-cell gap;
\* each row ends with a newline.
C17_ColumnMajorCells ==
    gpc = "done" /\ entries # <<>> =>
        LET inode_len == FieldLen(print_inode,
                                  [j \in 1..Len(entries) |-> entries[j].inode])
            blocks_len == FieldLen(display_size_in_blocks,
                                   [j \in 1..Len(entries) |-> entries[j].blocks])
            L == Lengths(entries, inode_len, blocks_len)
        IN  /\ \A i \in 0..(Len(entries) - 1) : GridPadding(L, i) >= 0
            /\ Writer = GridRowsFrom(
                            print_total_blocks(GridWriterBefore, entries,
                                               display_size_in_blocks),
                            L, inode_len, blocks_len, 0)

\* C17 witness: a layout of several rows and several columns whose last
\* column is short, with a cell that takes padding.
C17_Witness ==
    /\ gpc = "done" /\ rows >= 2 /\ Len(entries) > rows
    /\ Len(entries) % rows # 0
    /\ \E i \in 0..(Len(entries) - 1) : GridPadding(GridLengths, i) > 0

(***************************************************************************)
(* The raw directory enumerator (directory.rs Directory, IterDir, File).   *)
(*                                                                         *)
(* The kernel side is the record stream of the directory (the record       *)
(* lengths, in kernel order), the position getdents64 has reached in it    *)
(* and the descriptor table.  The buffer is kept as its length and the     *)
(* records written into it, by offset; every other byte of it is zero.     *)
(***************************************************************************)
VARIABLES
    stream,       \* kernel: the record length of each record of the directory
    kpos,         \* kernel: records handed out so far by getdents64
    fds,          \* kernel: per descriptor (fd = index + 2), open flag and close count
    dir_fd,       \* Directory::open's fd / Directory.fd (0: none)
    dirents,      \* Directory.dirents: offset of a record -> [reclen, id]
    dirents_len,  \* dirents.len()
    bytes_read,   \* Directory::open's bytes_read
    bytes_used,   \* Directory::open's bytes_used / Directory.bytes_used
    offset,       \* IterDir.offset
    yielded,      \* the entry views next() has returned, in order
    oob_read,     \* next() has read a record length outside the buffer
    fstyle,       \* what File::style returned ("none": not called)
    dpc           \* where the Directory is in its life

varsDir == <<stream, kpos, fds, dir_fd, dirents, dirents_len, bytes_read, bytes_used,
             offset, yielded, oob_read, fstyle, dpc>>

InitialLen == 4096   \* smallvec![0; 4096]
GrowBy == 4096       \* dirents.extend(repeat(0).take(4096))
DirentSize == 280    \* core::mem::size_of::<libc::dirent64>()
ReclenEnd == 18      \* offset of the byte after dirent64.d_reclen (u16 at 16)
ENOTDIR == 20        \* libc::ENOTDIR

EmptyMap == [o \in {} |-> 0]

\* a function extended with the pairs of another
Merge(f, g) == [x \in (DOMAIN f) \cup (DOMAIN g) |-> IF x \in DOMAIN g THEN g[x] ELSE f[x]]

\* The bytes of records from+1 .. from+k of the stream
RECURSIVE StreamBytes(_, _, _)
StreamBytes(st, from, k) ==
    IF k = 0 THEN 0 ELSE st[from + k] + StreamBytes(st, from, k - 1)

\* getdents64 with `avail` bytes of buffer: how many whole records it may
\* return (any number from 1 up to as many as fit; 0 at the end of the
\* directory).  The empty set means the first record does not fit (EINVAL).
GetdentsCounts(st, pos, avail) ==
    IF pos = Len(st) THEN {0}
    ELSE {k \in 1..(Len(st) - pos) : StreamBytes(st, pos, k) <= avail}

\* The records getdents64 writes at buffer offset `at` when it returns k records
Written(st, pos, k, at) ==
    [o \in {at + StreamBytes(st, pos, j - 1) : j \in 1..k} |->
        LET j == CHOOSE j \in 1..k : at + StreamBytes(st, pos, j - 1) = o
        IN  [reclen |-> st[pos + j], id |-> pos + j]]

\* syscalls::open_dir succeeding: the next free descriptor
OpenFd(table) == Append(table, [open |-> TRUE, closes |-> 0])
FdOf(table) == Len(table) + 3

\* syscalls::close(fd)
CloseFd(table, fd) ==
    [table EXCEPT ![fd - 2] = [open |-> FALSE, closes |-> @.closes + 1]]

\* bytes_used = bytes_read: the count of the last call instead of the sum.
UsedIsLastRead(used, read) == read

\* bytes_used += bytes_read
AdvanceUsed(used, read) == used + read

\* A buffer grown only once it is full to the last byte.
GrownWhenFull(len, used) == IF len - used <= 0 THEN len + GrowBy ELSE len

\* if dirents.len() - bytes_used < size_of::<dirent64>() { grow by 4096 }
GrownLen(len, used) == IF len - used < DirentSize THEN len + GrowBy ELSE len

\* name.rsplit(|b| *b == b'.').next(): the bytes after the last '.', the
\* whole name when it has none
RECURSIVE Extension(_)
Extension(name) ==
    IF name = <<>> THEN <<>>
    ELSE IF name[Len(name)] = 46 THEN <<>>
    ELSE LET rest == SubSeq(name, 1, Len(name) - 1)
         IN  IF \E i \in 1..Len(rest) : rest[i] = 46
             THEN Append(Extension(rest), name[Len(name)])
             ELSE name

\* style_for: the extension-based style
style_for(name) ==
    LET extension == Extension(name)
    IN  IF extension \in {<<116, 97, 114>>, <<103, 122>>, <<116, 103, 122>>, <<120, 122>>}
        THEN "Red"
        ELSE IF extension \in {<<112, 100, 102>>, <<101, 112, 115>>,
                               <<112, 110, 103>>, <<109, 112, 52>>}
        THEN "Magenta"
        ELSE "White"

MaxRecords == 30   \* most records in a directory

\* The record lengths the kernel produces: the shortest record and the
\* longest (a 255-byte name), both multiples of 8.
RecLens == {24, DirentSize}

\* Streams of n records whose lengths alternate between two values.
Streams ==
    {[i \in 1..n |-> IF i % 2 = 1 THEN a ELSE b] :
        n \in 0..MaxRecords, a \in RecLens, b \in RecLens}

\* The names File::style is called on: "a.gz", "b.pdf", "c"
FileNames == {<<97, 46, 103, 122>>, <<98, 46, 112, 100, 102>>, <<99>>}

\* Directory::open, line 20: open_dir succeeds and the 4096-byte buffer is made
OpenDirOk ==
    /\ dpc = "start"
    /\ fds' = OpenFd(fds)
    /\ dir_fd' = FdOf(fds)
    /\ dirents' = EmptyMap
    /\ dirents_len' = InitialLen
    /\ dpc' = "opened"
    /\ UNCHANGED <<stream, kpos, bytes_read, bytes_used, offset, yielded, oob_read, fstyle>>

\* Directory::open, line 20: open_dir fails and `?` returns the error
OpenDirErr ==
    /\ dpc = "start"
    /\ dpc' = "open_failed"
    /\ UNCHANGED <<stream, kpos, fds, dir_fd, dirents, dirents_len, bytes_read,
                   bytes_used, offset, yielded, oob_read, fstyle>>

\* Directory::open, lines 23-24: the first getdents64, into the whole buffer
FirstGetdents ==
    /\ dpc = "opened"
    /\ \E k \in GetdentsCounts(stream, kpos, dirents_len) :
          /\ dirents' = Merge(dirents, Written(stream, kpos, k, 0))
          /\ bytes_read' = StreamBytes(stream, kpos, k)
          /\ bytes_used' = StreamBytes(stream, kpos, k)
          /\ kpos' = kpos + k
    /\ dpc' = "loop"
    /\ UNCHANGED <<stream, fds, dir_fd, dirents_len, offset, yielded, oob_read, fstyle>>

\* Directory::open, lines 26-34: one turn of the while loop
LoopGetdents ==
    /\ dpc = "loop"
    /\ bytes_read > 0
    /\ LET len == GrownLen(dirents_len, bytes_used)
       IN  /\ dirents_len' = len
           /\ \E k \in GetdentsCounts(stream, kpos, len - bytes_used) :
                 /\ dirents' = Merge(dirents, Written(stream, kpos, k, bytes_used))
                 /\ bytes_read' = StreamBytes(stream, kpos, k)
                 /\ bytes_used' = AdvanceUsed(bytes_used, StreamBytes(stream, kpos, k))
                 /\ kpos' = kpos + k
    /\ UNCHANGED <<stream, fds, dir_fd, offset, yielded, oob_read, fstyle, dpc>>

\* Directory::open, lines 23 and 32: getdents64 fails (an I/O error, or
\* EINVAL when the next record does not fit the space left) and `?` returns
\* the error; the buffer is freed, the descriptor is left as it is
GetdentsErr ==
    /\ \/ dpc = "opened"
       \/ dpc = "loop" /\ bytes_read > 0
    /\ dirents' = EmptyMap
    /\ dirents_len' = 0
    /\ dpc' = "open_err"
    /\ UNCHANGED <<stream, kpos, fds, dir_fd, bytes_read, bytes_used, offset, yielded,
                   oob_read, fstyle>>

\* Directory::open, lines 36-40, then iter(): Ok(Directory), cursor at 0
ReturnOk ==
    /\ dpc = "loop"
    /\ bytes_read = 0
    /\ offset' = 0
    /\ dpc' = "ready"
    /\ UNCHANGED <<stream, kpos, fds, dir_fd, dirents, dirents_len, bytes_read,
                   bytes_used, yielded, oob_read, fstyle>>

\* Whether the two bytes of d_reclen of a record at `off` lie in the buffer
ReclenInBounds(off) == off >= 0 /\ off + ReclenEnd <= dirents_len

\* (*dirent_ptr).d_reclen at `off`: the length of the record that starts
\* there; zero in the never-written tail of the buffer; anything when the
\* read leaves the buffer or falls inside a record
ReclenAt(off) ==
    IF off \in DOMAIN dirents THEN {dirents[off].reclen}
    ELSE IF off >= bytes_used /\ ReclenInBounds(off) THEN {0}
    ELSE {0, 24}

\* IterDir::next
IterNext ==
    /\ dpc = "ready"
    /\ IF offset < bytes_used
       THEN /\ yielded' = Append(yielded,
                   [offset |-> offset,
                    id |-> IF offset \in DOMAIN dirents THEN dirents[offset].id ELSE 0])
            /\ dpc' = dpc
       ELSE /\ yielded' = yielded
            /\ dpc' = "iterated"
    /\ oob_read' = (oob_read \/ ~ReclenInBounds(offset))
    /\ \E reclen \in ReclenAt(offset) : offset' = offset + reclen
    /\ UNCHANGED <<stream, kpos, fds, dir_fd, dirents, dirents_len, bytes_read,
                   bytes_used, fstyle>>

\* Drop for Directory
DropDirectory ==
    /\ dpc \in {"ready", "iterated"}
    /\ fds' = CloseFd(fds, dir_fd)
    /\ dpc' = "dropped"
    /\ UNCHANGED <<stream, kpos, dir_fd, dirents, dirents_len, bytes_read, bytes_used,
                   offset, yielded, oob_read, fstyle>>

\* File::style, called while the listing's Directory is open or after it is
\* gone: open_dir as the probe; Ok closes the descriptor at once
FileStyle ==
    /\ dpc \in {"iterated", "dropped"}
    /\ fstyle = "none"
    /\ \E name \in FileNames, code \in {0, ENOTDIR, 5} :   \* Ok, ENOTDIR, EIO
          IF code = 0
          THEN /\ fds' = CloseFd(OpenFd(fds), FdOf(fds))
               /\ fstyle' = "BlueBold"
          ELSE /\ fds' = fds
               /\ fstyle' = IF code = ENOTDIR THEN style_for(name) ELSE "Err"
    /\ UNCHANGED <<stream, kpos, dir_fd, dirents, dirents_len, bytes_read, bytes_used,
                   offset, yielded, oob_read, dpc>>

\* The offset at which record i of the stream lies when nothing is lost
OffsetOf(i) == StreamBytes(stream, 0, i - 1)

\* C8: for a directory of N records, Directory::open followed by a full
\* iteration yields exactly N entry views, one per record in kernel order,
\* each whole and at its own offset, however getdents64 splits the records
\* and however often the buffer grows.
C8_YieldsEveryRecordOnce ==
    /\ dpc \in {"ready", "iterated", "dropped"} =>
          /\ Len(yielded) <= Len(stream)
          /\ \A i \in 1..Len(yielded) :
                /\ yielded[i].id = i
                /\ yielded[i].offset = OffsetOf(i)
                /\ dirents[OffsetOf(i)].reclen = stream[i]
                /\ OffsetOf(i) + stream[i] <= bytes_used
    /\ dpc = "iterated" => Len(yielded) = Len(stream)

\* C8 witness: a full iteration of a directory whose records took two growth
\* steps and at least three getdents64 calls that returned records.
C8_Witness ==
    /\ dpc = "iterated"
    /\ Len(yielded) = Len(stream)
    /\ dirents_len = InitialLen + 2 * GrowBy
    /\ bytes_used > InitialLen + GrowBy

\* C9: every descriptor open_dir returned is closed exactly once on every
\* exit path: once Directory::open has returned Err after a failed
\* getdents64, or its Directory has been dropped, and once File::style has
\* returned, no descriptor is left open and none was closed twice.
C9_ClosedExactlyOnce ==
    /\ \A i \in 1..Len(fds) : fds[i].closes <= 1
    /\ dpc \in {"open_err", "dropped"} =>
          \A i \in 1..Len(fds) : ~fds[i].open /\ fds[i].closes = 1
    /\ fstyle # "none" =>
          \A i \in 1..Len(fds) : i + 2 # dir_fd => ~fds[i].open /\ fds[i].closes = 1

\* C16: once Directory::open has returned Ok the buffer has at least
\* size_of(dirent64) bytes after bytes_used, and it had at least that much
\* free at every getdents64 call of the loop; every d_reclen that
\* IterDir::next reads, the one of its terminating step at offset =
\* bytes_used included, lies inside the buffer; the cursor is never beyond
\* bytes_used.
C16_TerminatingReadInBounds ==
    /\ [](dpc \in {"ready", "iterated", "dropped"} =>
            /\ dirents_len - bytes_used >= DirentSize
            /\ offset <= bytes_used
            /\ ~oob_read)
    /\ [][dpc = "loop" /\ dpc' = "loop" => dirents_len' - bytes_used >= DirentSize]_varsDir

\* C16 witness: a directory whose buffer grew has been iterated to the end,
\* the cursor resting on bytes_used within a record's length of the place
\* where the buffer would have grown again.
C16_Witness ==
    /\ dpc = "iterated"
    /\ offset = bytes_used
    /\ dirents_len > InitialLen
    /\ dirents_len - bytes_used < 2 * DirentSize

(***************************************************************************)
(* The style classifier of a listed entry (directory.rs RawDirEntry::style).*)
(***************************************************************************)
VARIABLES
    d_type,    \* dirent64.d_type of the entry
    ename,     \* the entry's name
    probes,    \* the faccessat calls made: the mode asked and the errno returned
    estyle,    \* the Style returned ("none": not called, "Err": an Err)
    ecode,     \* the code of the Err returned (0: none)
    epc        \* "start" | "done" | "idle"

varsSty == <<d_type, ename, probes, estyle, ecode, epc>>

DT_DIR == 4      \* libc::DT_DIR
DT_REG == 8      \* libc::DT_REG
DT_LNK == 10     \* libc::DT_LNK
F_OK == 0        \* libc::F_OK
X_OK == 1        \* libc::X_OK
ENOENT == 2      \* libc::ENOENT
EACCES == 13     \* libc::EACCES

\* .map(|_| style).or_else(|e| if e.0 == tolerated { Ok(fallback) } else { Err(e) })
\* on the outcome of faccessat(fd, name, mode): errno 0 is success.
ProbeStyle(mode, errno, style_ok, tolerated, fallback) ==
    [style |-> IF errno = 0 THEN style_ok
               ELSE IF errno = tolerated THEN fallback ELSE "Err",
     code |-> IF errno = 0 \/ errno = tolerated THEN 0 ELSE errno,
     probes |-> <<[mode |-> mode, errno |-> errno]>>]

\* A classifier that shows a symlink as broken whatever error the probe gave.
StyleAnyErrorBroken(dt, name, errno) ==
    CASE dt = DT_DIR -> [style |-> "BlueBold", code |-> 0, probes |-> <<>>]
      [] dt = DT_LNK -> ProbeStyle(F_OK, errno, "CyanBold", errno, "RedBold")
      [] dt = DT_REG -> ProbeStyle(X_OK, errno, "GreenBold", EACCES, style_for(name))
      [] OTHER -> [style |-> "White", code |-> 0, probes |-> <<>>]

\* RawDirEntry::style; errno is what faccessat returns if it is called
RawDirEntry_style(dt, name, errno) ==
    CASE dt = DT_DIR -> [style |-> "BlueBold", code |-> 0, probes |-> <<>>]
      [] dt = DT_LNK -> ProbeStyle(F_OK, errno, "CyanBold", ENOENT, "RedBold")
      [] dt = DT_REG -> ProbeStyle(X_OK, errno, "GreenBold", EACCES, style_for(name))
      [] OTHER -> [style |-> "White", code |-> 0, probes |-> <<>>]

\* d_type values: unknown, fifo, character device, directory, block device,
\* regular file, symlink, socket
DTypes == {0, 1, 2, DT_DIR, 6, DT_REG, DT_LNK, 12}

\* What faccessat may return: success, ENOENT, EACCES, EIO, ENOTDIR, ELOOP
ProbeErrnos == {0, ENOENT, EACCES, 5, ENOTDIR, 40}

\* "a.gz", "b.pdf", "c", "d.tar", "e.png", "f.gz.txt"
EntryNames == FileNames \cup {<<100, 46, 116, 97, 114>>, <<101, 46, 112, 110, 103>>,
                              <<102, 46, 103, 122, 46, 116, 120, 116>>}

\* One call of style() on the entry.
EntryStyle ==
    /\ epc = "start"
    /\ \E errno \in ProbeErrnos :
          LET r == RawDirEntry_style(d_type, ename, errno)
          IN  /\ estyle' = r.style
              /\ ecode' = r.code
              /\ probes' = r.probes
    /\ epc' = "done"
    /\ UNCHANGED <<d_type, ename>>

\* C12: RawDirEntry::style follows the decision table: a directory is
\* BlueBold with no probe; a symlink is probed for existence once, success
\* giving CyanBold, ENOENT RedBold and any other error an Err carrying it; a
\* regular file is probed for execute permission once, success giving
\* GreenBold, EACCES the extension-based style and any other error an Err
\* carrying it; every other type is White with no probe.  A style is never
\* made out of any other probe error.
C12_StyleDecisionTable ==
    epc = "done" =>
        /\ Len(probes) <= 1
        /\ d_type = DT_DIR => estyle = "BlueBold" /\ probes = <<>>
        /\ d_type = DT_LNK =>
              /\ Len(probes) = 1 /\ probes[1].mode = F_OK
              /\ probes[1].errno = 0 => estyle = "CyanBold"
              /\ probes[1].errno = ENOENT => estyle = "RedBold"
              /\ probes[1].errno \notin {0, ENOENT} =>
                    estyle = "Err" /\ ecode = probes[1].errno
        /\ d_type = DT_REG =>
              /\ Len(probes) = 1 /\ probes[1].mode = X_OK
              /\ probes[1].errno = 0 => estyle = "GreenBold"
              /\ probes[1].errno = EACCES => estyle = style_for(ename)
              /\ probes[1].errno \notin {0, EACCES} =>
                    estyle = "Err" /\ ecode = probes[1].errno
        /\ d_type \notin {DT_DIR, DT_LNK, DT_REG} => estyle = "White" /\ probes = <<>>
        /\ estyle # "Err" /\ probes # <<>> => probes[1].errno \in {0, ENOENT, EACCES}

\* C12 witness: a regular file whose probe was denied takes the style of its
\* extension, and that style is not the default one.
C12_Witness ==
    /\ epc = "done" /\ d_type = DT_REG
    /\ probes = <<[mode |-> X_OK, errno |-> EACCES]>>
    /\ estyle = "Red"

(***************************************************************************)
(* The top-level run over the path arguments (main.rs main, run).          *)
(*                                                                         *)
(* What run appends to app.out is kept as a sequence of chunks: the        *)
(* diagnostic line of an argument, the header line of a directory, the     *)
(* listing a display function is called for (with the names it is handed,  *)
(* in the order it is handed them), a separating newline.                  *)
(***************************************************************************)
VARIABLES
    args,          \* app.args: the path arguments, each with what the system
                   \* answers for it
    display_mode,  \* app.display_mode: "Grid" | "Long"
    dot_errno,     \* what Directory::open(".") returns (0: Ok)
    ri,            \* the argument the first loop is at (1-based)
    dirs,          \* dirs: the arguments that opened, each owning its handle
    files,         \* files: the arguments that are not directories
    rn,            \* the directory the listing loop is at (1-based)
    handles,       \* the arguments whose directory handle is open now
    peak,          \* the most handles of arguments open at the same time
    rout,          \* the chunks appended to app.out
    failed,        \* the error that made run return Err (kind "none": none)
    status,        \* the exit status of the process (-1: still running)
    rpc            \* "args" | "files" | "dirs" | "return" | "done" | "idle"

varsRun == <<args, display_mode, dot_errno, ri, dirs, files, rn, handles, peak,
             rout, failed, status, rpc>>

EIO == 5         \* an errno of getdents64
EMFILE == 24     \* an errno of open
DOT == 46        \* b'.'

\* The paths given as arguments.  open: the errno of Directory::open (0: Ok);
\* read: the errno of dir.read(); stat: the errno of lstatat on its entries
\* (or on the path itself); names: the entries of the directory.
Paths ==
    { [path |-> <<100, 49>>, open |-> 0, read |-> 0, stat |-> 0,
       names |-> <<<<98>>, <<DOT, 104>>, <<97>>>>],                   \* "d1": b .h a
      [path |-> <<100, 50>>, open |-> 0, read |-> 0, stat |-> 0,
       names |-> <<>>],                                               \* "d2": empty
      [path |-> <<101>>, open |-> 0, read |-> EIO, stat |-> 0,
       names |-> <<>>],                                               \* "e": read fails
      [path |-> <<115>>, open |-> 0, read |-> 0, stat |-> EACCES,
       names |-> <<<<99>>>>],                                         \* "s": lstatat fails
      [path |-> <<103>>, open |-> ENOTDIR, read |-> 0, stat |-> 0,
       names |-> <<>>],                                               \* "g": a file
      [path |-> <<102>>, open |-> ENOTDIR, read |-> 0, stat |-> ENOENT,
       names |-> <<>>],                                               \* "f": a file gone by lstatat
      [path |-> <<120>>, open |-> ENOENT, read |-> 0, stat |-> 0,
       names |-> <<>>],                                               \* "x": missing
      [path |-> <<121>>, open |-> EACCES, read |-> 0, stat |-> 0,
       names |-> <<>>] }                                              \* "y": denied

MaxArgs == 3     \* most path arguments on a command line

\* need_details, for the display modes of the model; app.sort_field is
\* Some(SortField::Name) and app.reverse_sorting is off throughout
need_details == display_mode = "Long"

\* let multiple_args = app.args.len() > 1;
multiple_args == Len(args) > 1

\* The arm of `match veneer::Directory::open(arg)` that treats every error
\* as "not a directory".
ArgArmErrorsAreFiles(errno) == IF errno = 0 THEN "dir" ELSE "file"

\* match veneer::Directory::open(arg) { Ok(d) / Err(Error(20)) / Err(e) }
ArgArm(errno) ==
    CASE errno = 0 -> "dir"
      [] errno = ENOTDIR -> "file"
      [] OTHER -> "diag"

\* A main that returns 0 whatever run returned.
ExitStatusIgnoresErr(code) == 0

\* main: Ok(()) => 0, Err(e) => e.0 as i32; the status a parent sees is its
\* low 8 bits.  code is 0 for Ok(()).
ExitStatus(code) == code % 256

Chunk(kind, path, code, names) ==
    [kind |-> kind, path |-> path, code |-> code, names |-> names]

\* arg ": OS error " code " " msg "\n"
DiagLine(path, code) == Chunk("diag", path, code, <<>>)

\* name ":\n"
HeaderLine(path) == Chunk("header", path, 0, <<>>)

\* app.out.push(b'\n')
Separator == Chunk("nl", <<>>, 0, <<>>)

\* sort_unstable_by(|a, b| vercmp(a.name(), b.name())): names inserted one by
\* one before the first name they are Less than.
RECURSIVE InsertSorted(_, _)
InsertSorted(sorted, name) ==
    IF sorted = <<>> THEN <<name>>
    ELSE IF vercmp(name, Head(sorted)) = "Less" THEN <<name>> \o sorted
    ELSE <<Head(sorted)>> \o InsertSorted(Tail(sorted), name)

RECURSIVE SortNames(_)
SortNames(names) ==
    IF names = <<>> THEN <<>>
    ELSE InsertSorted(SortNames(SubSeq(names, 1, Len(names) - 1)), names[Len(names)])

\* ShowAll::No: contents.iter().filter(|e| e.name().get(0) != Some(b'.'))
NotHidden(name) == name = <<>> \/ name[1] # DOT
Shown(names) == SelectSeq(names, NotHidden)

\* The listing of sorted entries by the display function of the mode.
Listing(path, names) ==
    Chunk(IF need_details THEN "details" ELSE "grid", path, 0, SortNames(names))

PathsOf(fs) == [i \in 1..Len(fs) |-> fs[i].path]

NoError == [kind |-> "none", n |-> 0, code |-> 0]

\* run returns: every Directory of dirs is dropped, main turns the result
\* into the exit status.
Return(err) ==
    /\ handles' = {}
    /\ failed' = err
    /\ status' = ExitStatus(err.code)
    /\ rpc' = "done"

\* where the first loop goes after argument ri
AfterArg == IF ri = Len(args) THEN "files" ELSE "args"

\* for arg in app.args.clone(), Ok(d) => dirs.push((arg, d))
OpenArgDir ==
    /\ rpc = "args"
    /\ ArgArm(args[ri].open) = "dir"
    /\ dirs' = Append(dirs, [arg |-> ri, name |-> args[ri].path])
    /\ handles' = handles \cup {ri}
    /\ peak' = Max(peak, Cardinality(handles \cup {ri}))
    /\ ri' = ri + 1
    /\ rpc' = AfterArg
    /\ UNCHANGED <<args, display_mode, dot_errno, files, rn, rout, failed, status>>

\* Err(Error(20)) => files.push(File { path: arg })
OpenArgFile ==
    /\ rpc = "args"
    /\ ArgArm(args[ri].open) = "file"
    /\ files' = Append(files, args[ri])
    /\ ri' = ri + 1
    /\ rpc' = AfterArg
    /\ UNCHANGED <<args, display_mode, dot_errno, dirs, rn, handles, peak, rout,
                   failed, status>>

\* Err(e) => the diagnostic line is written to app.out
OpenArgErr ==
    /\ rpc = "args"
    /\ ArgArm(args[ri].open) = "diag"
    /\ rout' = Append(rout, DiagLine(args[ri].path, args[ri].open))
    /\ ri' = ri + 1
    /\ rpc' = AfterArg
    /\ UNCHANGED <<args, display_mode, dot_errno, dirs, files, rn, handles, peak,
                   failed, status>>

\* where run goes after the block of the file arguments
AfterFiles == IF dirs = <<>> THEN "return" ELSE "dirs"

\* if !files.is_empty() { ... } skipped
FilesNone ==
    /\ rpc = "files"
    /\ files = <<>>
    /\ rpc' = AfterFiles
    /\ UNCHANGED <<args, display_mode, dot_errno, ri, dirs, files, rn, handles, peak,
                   rout, failed, status>>

\* The first file whose lstatat fails, 0 when none does (or none is called).
FirstStatError(fs) ==
    IF need_details /\ \E i \in 1..Len(fs) : fs[i].stat # 0
    THEN fs[CHOOSE i \in 1..Len(fs) :
                /\ fs[i].stat # 0
                /\ \A j \in 1..(i - 1) : fs[j].stat = 0].stat
    ELSE 0

\* The file arguments are listed relative to "."; then the newline that
\* separates them from the directories.  The handle on "." is dropped when
\* the block ends.
FilesListed ==
    /\ rpc = "files"
    /\ files # <<>>
    /\ dot_errno = 0
    /\ FirstStatError(files) = 0
    /\ rout' = rout \o <<Listing(<<DOT>>, PathsOf(files))>>
                    \o (IF dirs # <<>> THEN <<Separator>> ELSE <<>>)
    /\ rpc' = AfterFiles
    /\ UNCHANGED <<args, display_mode, dot_errno, ri, dirs, files, rn, handles, peak,
                   failed, status>>

\* veneer::Directory::open(".")? or lstatat(dir.raw_fd(), e.name())? fails
FilesAbort ==
    /\ rpc = "files"
    /\ files # <<>>
    /\ dot_errno # 0 \/ FirstStatError(files) # 0
    /\ Return([kind |-> IF dot_errno # 0 THEN "open_dot" ELSE "stat_file", n |-> 0,
               code |-> IF dot_errno # 0 THEN dot_errno ELSE FirstStatError(files)])
    /\ UNCHANGED <<args, display_mode, dot_errno, ri, dirs, files, rn, peak, rout>>

\* the directory argument the listing loop is at
ThisDir == args[dirs[rn].arg]

\* if multiple_args { app.out.write(*name).write(b":\n"); }
Header == IF multiple_args THEN <<HeaderLine(dirs[rn].name)>> ELSE <<>>

\* for (n, (name, dir)) in dirs.iter().enumerate(): dir.read()? fails
DirReadErr ==
    /\ rpc = "dirs"
    /\ ThisDir.read # 0
    /\ Return([kind |-> "read", n |-> rn, code |-> ThisDir.read])
    /\ UNCHANGED <<args, display_mode, dot_errno, ri, dirs, files, rn, peak, rout>>

\* the header is written, then lstatat(dir.raw_fd(), e.name())? fails
DirStatErr ==
    /\ rpc = "dirs"
    /\ ThisDir.read = 0
    /\ need_details /\ Shown(ThisDir.names) # <<>> /\ ThisDir.stat # 0
    /\ rout' = rout \o Header
    /\ Return([kind |-> "stat", n |-> rn, code |-> ThisDir.stat])
    /\ UNCHANGED <<args, display_mode, dot_errno, ri, dirs, files, rn, peak>>

\* one directory read, filtered, headed, sorted, listed and separated from
\* the next
DirListed ==
    /\ rpc = "dirs"
    /\ ThisDir.read = 0
    /\ ~(need_details /\ Shown(ThisDir.names) # <<>> /\ ThisDir.stat # 0)
    /\ rout' = rout \o Header
                    \o <<Listing(dirs[rn].name, Shown(ThisDir.names))>>
                    \o (IF multiple_args /\ rn # Len(dirs) THEN <<Separator>> ELSE <<>>)
    /\ rn' = rn + 1
    /\ rpc' = IF rn = Len(dirs) THEN "return" ELSE "dirs"
    /\ UNCHANGED <<args, display_mode, dot_errno, ri, dirs, files, handles, peak,
                   failed, status>>

\* Ok(()): the listing loop is over
RunReturnsOk ==
    /\ rpc = "return"
    /\ Return(NoError)
    /\ UNCHANGED <<args, display_mode, dot_errno, ri, dirs, files, rn, peak, rout>>

IsBad(a) == a.open \notin {0, ENOTDIR}
IsDirArg(a) == a.open = 0
IsFileArg(a) == a.open = ENOTDIR
NotBad(a) == ~IsBad(a)

\* One diagnostic line for each argument that failed to open, in order.
Diags(as) ==
    LET bad == SelectSeq(as, IsBad)
    IN  [i \in 1..Len(bad) |-> DiagLine(bad[i].path, bad[i].open)]

\* The listings of directories k.. of ds, with headers and separators when
\* `multiple` says so.
RECURSIVE DirListings(_, _, _)
DirListings(ds, k, multiple) ==
    IF k > Len(ds) THEN <<>>
    ELSE (IF multiple THEN <<HeaderLine(ds[k].path)>> ELSE <<>>)
         \o <<Listing(ds[k].path, Shown(ds[k].names))>>
         \o (IF multiple /\ k # Len(ds) THEN <<Separator>> ELSE <<>>)
         \o DirListings(ds, k + 1, multiple)

\* What a run that meets no error prints for arguments that all open or are
\* files: the files together, a separator, the directories in order.
Listed(as, multiple) ==
    LET fs == SelectSeq(as, IsFileArg)
        ds == SelectSeq(as, IsDirArg)
    IN  (IF fs = <<>> THEN <<>>
         ELSE <<Listing(<<DOT>>, PathsOf(fs))>>
              \o (IF ds # <<>> THEN <<Separator>> ELSE <<>>))
        \o DirListings(ds, 1, multiple)

IsPrefix(a, b) == Len(a) <= Len(b) /\ a = SubSeq(b, 1, Len(a))

\* C13 as stated: a run that ends without a fatal error has printed one
\* diagnostic line per argument that failed to open, followed by exactly
\* what it prints for the other arguments given alone.
C13_AsIfNotGiven ==
    rpc = "done" /\ failed.kind = "none" =>
        rout = Diags(args)
                 \o Listed(SelectSeq(args, NotBad), Len(SelectSeq(args, NotBad)) > 1)

\* C13: an argument that fails to open with an error other than ENOTDIR is
\* reported with one diagnostic line and does not stop the run: the other
\* arguments are classified and listed as they are without it, except that
\* headers and separators between directories are printed whenever more than
\* one argument was given, the failing ones counted.  A run cut short by a
\* fatal error has printed a prefix of that output.
C13_BadArgReportedRunGoesOn ==
    rpc # "idle" =>
        LET whole == Diags(args) \o Listed(SelectSeq(args, NotBad), Len(args) > 1)
        IN  /\ IsPrefix(rout, whole)
            /\ rpc = "done" /\ failed.kind = "none" => rout = whole

\* C13 witness: a finished run in which an argument failed to open, a file
\* argument and a directory argument were listed.
C13_Witness ==
    /\ rpc = "done" /\ failed.kind = "none"
    /\ \E i \in 1..Len(args) : IsBad(args[i])
    /\ \E i \in 1..Len(rout) : rout[i].kind = "diag"
    /\ \E i \in 1..Len(rout) : rout[i].kind \in {"grid", "details"} /\ rout[i].path = <<DOT>>
    /\ \E i \in 1..Len(rout) : rout[i].kind \in {"grid", "details"} /\ rout[i].path # <<DOT>>

\* How many chunks of the output satisfy a test on their kind and path.
DirListingsIn(out) ==
    Cardinality({i \in 1..Len(out) :
                    out[i].kind \in {"grid", "details"} /\ out[i].path # <<DOT>>})
HeadersIn(out) == Cardinality({i \in 1..Len(out) : out[i].kind = "header"})

\* C14: when dir.read() or lstatat fails for a directory that was opened,
\* run returns at once: only the directories before it have a listing in the
\* output, no directory after it has a header or a listing, and the exit
\* status is the code of that error; the exit status is 0 only if no such
\* error occurred.
C14_FatalErrorAborts ==
    rpc = "done" =>
        /\ failed.kind \in {"read", "stat"} =>
              /\ status = failed.code /\ status # 0
              /\ DirListingsIn(rout) = failed.n - 1
              /\ HeadersIn(rout) <= failed.n
        /\ status = 0 => failed.kind \notin {"read", "stat"}

\* C14 witness: the run was aborted by a directory that has one listed
\* before it and one after it.
C14_Witness ==
    /\ rpc = "done" /\ failed.kind \in {"read", "stat"}
    /\ failed.n > 1 /\ failed.n < Len(dirs)
    /\ DirListingsIn(rout) = failed.n - 1

\* C15: the handles of directory arguments are held one at a time: none is
\* open before the listing of its directory begins, and no two are ever open
\* at the same time.
C15_OneHandleAtATime ==
    /\ rpc = "args" => handles = {}
    /\ peak <= 1

vars == <<varsCmp, varsOut, varsGrid, varsDir, varsSty, varsRun>>

(***************************************************************************)
(* The specifications.                                                     *)
(***************************************************************************)
\* Two names to compare both ways round; nothing else in use.
InitSpecVercmp ==
    /\ s1 \in Strs(MaxLen) /\ s2 \in Strs(MaxLen) /\ s3 = <<>>
    /\ r12 = "none" /\ r21 = "none" /\ r23 = "none" /\ r13 = "none"
    /\ cpc = "start"
    /\ buf = <<>> /\ buf_used = 0 /\ style = "Reset" /\ is_terminal = FALSE
    /\ stdout = <<>> /\ hist = <<>> /\ wpc = "idle"
    /\ entries = <<>> /\ print_inode = FALSE /\ display_size_in_blocks = FALSE
    /\ terminal_width = 0 /\ rows = 0 /\ gpc = "idle"
    /\ stream = <<>> /\ kpos = 0 /\ fds = <<>> /\ dir_fd = 0
    /\ dirents = EmptyMap /\ dirents_len = 0 /\ bytes_read = 0 /\ bytes_used = 0
    /\ offset = 0 /\ yielded = <<>> /\ oob_read = FALSE /\ fstyle = "none"
    /\ dpc = "idle"
    /\ d_type = 0 /\ ename = <<>> /\ probes = <<>> /\ estyle = "none" /\ ecode = 0
    /\ epc = "idle"
    /\ args = <<>> /\ display_mode = "Grid" /\ dot_errno = 0 /\ ri = 0
    /\ dirs = <<>> /\ files = <<>> /\ rn = 0 /\ handles = {} /\ peak = 0
    /\ rout = <<>> /\ failed = NoError /\ status = -1 /\ rpc = "idle"

NextVercmp == Compare2 /\ UNCHANGED <<varsOut, varsGrid, varsDir, varsSty, varsRun>>

\* vercmp on every pair of names up to MaxLen bytes
SpecVercmp ==
    /\ InitSpecVercmp
    /\ [][NextVercmp]_vars

\* Three names; nothing else in use.
InitSpecVercmp3 ==
    /\ s1 \in Strs(MaxLen3) /\ s2 \in Strs(MaxLen3) /\ s3 \in Strs(MaxLen3)
    /\ r12 = "none" /\ r21 = "none" /\ r23 = "none" /\ r13 = "none"
    /\ cpc = "start"
    /\ buf = <<>> /\ buf_used = 0 /\ style = "Reset" /\ is_terminal = FALSE
    /\ stdout = <<>> /\ hist = <<>> /\ wpc = "idle"
    /\ entries = <<>> /\ print_inode = FALSE /\ display_size_in_blocks = FALSE
    /\ terminal_width = 0 /\ rows = 0 /\ gpc = "idle"
    /\ stream = <<>> /\ kpos = 0 /\ fds = <<>> /\ dir_fd = 0
    /\ dirents = EmptyMap /\ dirents_len = 0 /\ bytes_read = 0 /\ bytes_used = 0
    /\ offset = 0 /\ yielded = <<>> /\ oob_read = FALSE /\ fstyle = "none"
    /\ dpc = "idle"
    /\ d_type = 0 /\ ename = <<>> /\ probes = <<>> /\ estyle = "none" /\ ecode = 0
    /\ epc = "idle"
    /\ args = <<>> /\ display_mode = "Grid" /\ dot_errno = 0 /\ ri = 0
    /\ dirs = <<>> /\ files = <<>> /\ rn = 0 /\ handles = {} /\ peak = 0
    /\ rout = <<>> /\ failed = NoError /\ status = -1 /\ rpc = "idle"

NextVercmp3 == Compare3 /\ UNCHANGED <<varsOut, varsGrid, varsDir, varsSty, varsRun>>

\* vercmp on every triple of names up to MaxLen3 bytes
SpecVercmp3 ==
    /\ InitSpecVercmp3
    /\ [][NextVercmp3]_vars

\* Any entry list, flags and width; the writer is fresh or holds the header
\* line "x:\n" run() writes before a listing.
InitSpecGrid ==
    /\ entries \in UNION {[1..n -> EntryKinds] : n \in 0..MaxEntries}
    /\ print_inode \in BOOLEAN
    /\ display_size_in_blocks \in BOOLEAN
    /\ terminal_width \in 0..MaxWidth
    /\ rows = 0
    /\ gpc = "start"
    /\ is_terminal \in BOOLEAN
    /\ buf \in GridPrefixes
    /\ buf_used = Len(buf)
    /\ style = "Reset"
    /\ stdout = <<>>
    /\ hist = <<>>
    /\ wpc = "live"
    /\ s1 = <<>> /\ s2 = <<>> /\ s3 = <<>>
    /\ r12 = "none" /\ r21 = "none" /\ r23 = "none" /\ r13 = "none"
    /\ cpc = "idle"
    /\ stream = <<>> /\ kpos = 0 /\ fds = <<>> /\ dir_fd = 0
    /\ dirents = EmptyMap /\ dirents_len = 0 /\ bytes_read = 0 /\ bytes_used = 0
    /\ offset = 0 /\ yielded = <<>> /\ oob_read = FALSE /\ fstyle = "none"
    /\ dpc = "idle"
    /\ d_type = 0 /\ ename = <<>> /\ probes = <<>> /\ estyle = "none" /\ ecode = 0
    /\ epc = "idle"
    /\ args = <<>> /\ display_mode = "Grid" /\ dot_errno = 0 /\ ri = 0
    /\ dirs = <<>> /\ files = <<>> /\ rn = 0 /\ handles = {} /\ peak = 0
    /\ rout = <<>> /\ failed = NoError /\ status = -1 /\ rpc = "idle"

NextGrid == WriteGrid /\ UNCHANGED <<varsCmp, varsDir, varsSty, varsRun>>

\* write_grid on every entry list, flag combination and width
SpecGrid ==
    /\ InitSpecGrid
    /\ [][NextGrid]_vars

\* A writer for a terminal or a file, fresh or two bytes short of full.
InitSpecWriter ==
    /\ \E term \in BOOLEAN, fill \in Fills :
          /\ buf = Prefilled(term, fill).buf
          /\ buf_used = fill
          /\ is_terminal = term
    /\ style = "Reset"
    /\ stdout = <<>>
    /\ hist = <<>>
    /\ wpc = "live"
    /\ s1 = <<>> /\ s2 = <<>> /\ s3 = <<>>
    /\ r12 = "none" /\ r21 = "none" /\ r23 = "none" /\ r13 = "none"
    /\ cpc = "idle"
    /\ entries = <<>> /\ print_inode = FALSE /\ display_size_in_blocks = FALSE
    /\ terminal_width = 0 /\ rows = 0 /\ gpc = "idle"
    /\ stream = <<>> /\ kpos = 0 /\ fds = <<>> /\ dir_fd = 0
    /\ dirents = EmptyMap /\ dirents_len = 0 /\ bytes_read = 0 /\ bytes_used = 0
    /\ offset = 0 /\ yielded = <<>> /\ oob_read = FALSE /\ fstyle = "none"
    /\ dpc = "idle"
    /\ d_type = 0 /\ ename = <<>> /\ probes = <<>> /\ estyle = "none" /\ ecode = 0
    /\ epc = "idle"
    /\ args = <<>> /\ display_mode = "Grid" /\ dot_errno = 0 /\ ri = 0
    /\ dirs = <<>> /\ files = <<>> /\ rn = 0 /\ handles = {} /\ peak = 0
    /\ rout = <<>> /\ failed = NoError /\ status = -1 /\ rpc = "idle"

NextWriter ==
    \/ Push /\ UNCHANGED <<varsCmp, varsGrid, varsDir, varsSty, varsRun>>
    \/ WriteBytes /\ UNCHANGED <<varsCmp, varsGrid, varsDir, varsSty, varsRun>>
    \/ SetStyle /\ UNCHANGED <<varsCmp, varsGrid, varsDir, varsSty, varsRun>>
    \/ AlignLeft /\ UNCHANGED <<varsCmp, varsGrid, varsDir, varsSty, varsRun>>
    \/ AlignRight /\ UNCHANGED <<varsCmp, varsGrid, varsDir, varsSty, varsRun>>
    \/ DropWriter /\ UNCHANGED <<varsCmp, varsGrid, varsDir, varsSty, varsRun>>
    \/ ExitOnWriteError /\ UNCHANGED <<varsCmp, varsGrid, varsDir, varsSty, varsRun>>

\* every sequence of up to MaxCalls calls on a writer, then its drop
SpecWriter ==
    /\ InitSpecWriter
    /\ [][NextWriter]_vars

\* A directory with any of the record streams, not yet opened.
InitSpecDir ==
    /\ stream \in Streams
    /\ kpos = 0 /\ fds = <<>> /\ dir_fd = 0
    /\ dirents = EmptyMap /\ dirents_len = 0 /\ bytes_read = 0 /\ bytes_used = 0
    /\ offset = 0 /\ yielded = <<>> /\ oob_read = FALSE /\ fstyle = "none"
    /\ dpc = "start"
    /\ s1 = <<>> /\ s2 = <<>> /\ s3 = <<>>
    /\ r12 = "none" /\ r21 = "none" /\ r23 = "none" /\ r13 = "none"
    /\ cpc = "idle"
    /\ buf = <<>> /\ buf_used = 0 /\ style = "Reset" /\ is_terminal = FALSE
    /\ stdout = <<>> /\ hist = <<>> /\ wpc = "idle"
    /\ entries = <<>> /\ print_inode = FALSE /\ display_size_in_blocks = FALSE
    /\ terminal_width = 0 /\ rows = 0 /\ gpc = "idle"
    /\ d_type = 0 /\ ename = <<>> /\ probes = <<>> /\ estyle = "none" /\ ecode = 0
    /\ epc = "idle"
    /\ args = <<>> /\ display_mode = "Grid" /\ dot_errno = 0 /\ ri = 0
    /\ dirs = <<>> /\ files = <<>> /\ rn = 0 /\ handles = {} /\ peak = 0
    /\ rout = <<>> /\ failed = NoError /\ status = -1 /\ rpc = "idle"

NextDir ==
    \/ OpenDirOk /\ UNCHANGED <<varsCmp, varsOut, varsGrid, varsSty, varsRun>>
    \/ OpenDirErr /\ UNCHANGED <<varsCmp, varsOut, varsGrid, varsSty, varsRun>>
    \/ FirstGetdents /\ UNCHANGED <<varsCmp, varsOut, varsGrid, varsSty, varsRun>>
    \/ LoopGetdents /\ UNCHANGED <<varsCmp, varsOut, varsGrid, varsSty, varsRun>>
    \/ GetdentsErr /\ UNCHANGED <<varsCmp, varsOut, varsGrid, varsSty, varsRun>>
    \/ ReturnOk /\ UNCHANGED <<varsCmp, varsOut, varsGrid, varsSty, varsRun>>
    \/ IterNext /\ UNCHANGED <<varsCmp, varsOut, varsGrid, varsSty, varsRun>>
    \/ DropDirectory /\ UNCHANGED <<varsCmp, varsOut, varsGrid, varsSty, varsRun>>
    \/ FileStyle /\ UNCHANGED <<varsCmp, varsOut, varsGrid, varsSty, varsRun>>

\* one directory opened, read, iterated and dropped; one File::style call
SpecDir ==
    /\ InitSpecDir
    /\ [][NextDir]_vars

\* An entry of any type and name, not yet classified.
InitSpecStyle ==
    /\ d_type \in DTypes /\ ename \in EntryNames
    /\ probes = <<>> /\ estyle = "none" /\ ecode = 0 /\ epc = "start"
    /\ s1 = <<>> /\ s2 = <<>> /\ s3 = <<>>
    /\ r12 = "none" /\ r21 = "none" /\ r23 = "none" /\ r13 = "none"
    /\ cpc = "idle"
    /\ buf = <<>> /\ buf_used = 0 /\ style = "Reset" /\ is_terminal = FALSE
    /\ stdout = <<>> /\ hist = <<>> /\ wpc = "idle"
    /\ entries = <<>> /\ print_inode = FALSE /\ display_size_in_blocks = FALSE
    /\ terminal_width = 0 /\ rows = 0 /\ gpc = "idle"
    /\ stream = <<>> /\ kpos = 0 /\ fds = <<>> /\ dir_fd = 0
    /\ dirents = EmptyMap /\ dirents_len = 0 /\ bytes_read = 0 /\ bytes_used = 0
    /\ offset = 0 /\ yielded = <<>> /\ oob_read = FALSE /\ fstyle = "none"
    /\ dpc = "idle"
    /\ args = <<>> /\ display_mode = "Grid" /\ dot_errno = 0 /\ ri = 0
    /\ dirs = <<>> /\ files = <<>> /\ rn = 0 /\ handles = {} /\ peak = 0
    /\ rout = <<>> /\ failed = NoError /\ status = -1 /\ rpc = "idle"

NextStyle == EntryStyle /\ UNCHANGED <<varsCmp, varsOut, varsGrid, varsDir, varsRun>>

\* one entry classified once, whatever its probe returns
SpecStyle ==
    /\ InitSpecStyle
    /\ [][NextStyle]_vars

\* Any command line of up to MaxArgs of the paths, in either display mode.
InitSpecRun ==
    /\ args \in UNION {[1..k -> Paths] : k \in 1..MaxArgs}
    /\ display_mode \in {"Grid", "Long"}
    /\ dot_errno \in {0, EMFILE}
    /\ ri = 1 /\ dirs = <<>> /\ files = <<>> /\ rn = 1
    /\ handles = {} /\ peak = 0 /\ rout = <<>>
    /\ failed = NoError /\ status = -1 /\ rpc = "args"
    /\ s1 = <<>> /\ s2 = <<>> /\ s3 = <<>>
    /\ r12 = "none" /\ r21 = "none" /\ r23 = "none" /\ r13 = "none"
    /\ cpc = "idle"
    /\ buf = <<>> /\ buf_used = 0 /\ style = "Reset" /\ is_terminal = FALSE
    /\ stdout = <<>> /\ hist = <<>> /\ wpc = "idle"
    /\ entries = <<>> /\ print_inode = FALSE /\ display_size_in_blocks = FALSE
    /\ terminal_width = 0 /\ rows = 0 /\ gpc = "idle"
    /\ stream = <<>> /\ kpos = 0 /\ fds = <<>> /\ dir_fd = 0
    /\ dirents = EmptyMap /\ dirents_len = 0 /\ bytes_read = 0 /\ bytes_used = 0
    /\ offset = 0 /\ yielded = <<>> /\ oob_read = FALSE /\ fstyle = "none"
    /\ dpc = "idle"
    /\ d_type = 0 /\ ename = <<>> /\ probes = <<>> /\ estyle = "none" /\ ecode = 0
    /\ epc = "idle"

NextRun ==
    \/ OpenArgDir /\ UNCHANGED <<varsCmp, varsOut, varsGrid, varsDir, varsSty>>
    \/ OpenArgFile /\ UNCHANGED <<varsCmp, varsOut, varsGrid, varsDir, varsSty>>
    \/ OpenArgErr /\ UNCHANGED <<varsCmp, varsOut, varsGrid, varsDir, varsSty>>
    \/ FilesNone /\ UNCHANGED <<varsCmp, varsOut, varsGrid, varsDir, varsSty>>
    \/ FilesListed /\ UNCHANGED <<varsCmp, varsOut, varsGrid, varsDir, varsSty>>
    \/ FilesAbort /\ UNCHANGED <<varsCmp, varsOut, varsGrid, varsDir, varsSty>>
    \/ DirReadErr /\ UNCHANGED <<varsCmp, varsOut, varsGrid, varsDir, varsSty>>
    \/ DirStatErr /\ UNCHANGED <<varsCmp, varsOut, varsGrid, varsDir, varsSty>>
    \/ DirListed /\ UNCHANGED <<varsCmp, varsOut, varsGrid, varsDir, varsSty>>
    \/ RunReturnsOk /\ UNCHANGED <<varsCmp, varsOut, varsGrid, varsDir, varsSty>>

\* one run of the program over its arguments, to its exit status
SpecRun ==
    /\ InitSpecRun
    /\ [][NextRun]_vars

====
